---- MODULE Spec2Model ----
(***************************************************************************)
(* Model of src/src/hands_off/main2.py: the module start-up check of the   *)
(* API key, the chat-start handler start() and the message handler main(), *)
(* with the session store of the UI framework and the Python lists the     *)
(* handlers share by reference.                                            *)
(*                                                                         *)
(* A Python list is an object: user_session.get returns the stored list    *)
(* itself, so history.append mutates the stored history in place, while    *)
(* `get(...) or []` yields a fresh list when the stored one is empty.      *)
(* The model therefore keeps a heap of lists and references into it.       *)
(***************************************************************************)
EXTENDS Integers, Sequences, FiniteSets, TLC

(* ------------------------------ bounds --------------------------------- *)
NumHandlers == 2
MaxTurns == 3
MaxStarts == 2
\* turns of a session whose handlers may overlap
MaxOverlapTurns == 2

Handlers == 1..NumHandlers
\* one list per handler local, one stored, one being allocated
ListIds == 1..(NumHandlers + 2)

Texts == {"m1", "m2"}
Outputs == {"o1", "o2"}
Errors == {"e1"}

(* ------------------------------ values --------------------------------- *)
\* Python's None, for a variable holding a string and for one holding a list
None == "None"
NoneRef == 0

\* the values os.getenv("GEMINI_API_KEY") can give: unset, empty, set
KeyValues == {None, "", "key"}

billing_agent == [name |-> "Billing Agent", instructions |-> "You are a billing agent.", handoffs |-> {}]

refund_agent == [name |-> "Refund Agent", instructions |-> "You are a refund agent.", handoffs |-> {}]

\* handoff(target, on_handoff=lambda ctx: on_handoff(captured, ctx))
Handoff(target, captured) == [target |-> target.name, notify |-> captured.name]

\* lines 81-82 with each lambda naming the other delegate
swapped_handoffs == {Handoff(billing_agent, refund_agent), Handoff(refund_agent, billing_agent)}

triage_handoffs == {Handoff(billing_agent, billing_agent), Handoff(refund_agent, refund_agent)}

triage_agent == [name |-> "Triage Agent", instructions |-> "You are a triage agent.", handoffs |-> triage_handoffs]

NoAgent == [name |-> None, instructions |-> None, handoffs |-> {}]

RunConfig == [model |-> "gemini-2.5-flash", tracing_disabled |-> TRUE]

NoConfig == [model |-> None, tracing_disabled |-> FALSE]

\* str.lower() on the agent names of this program
Lower(name) ==
    CASE name = "Billing Agent" -> "billing agent"
      [] name = "Refund Agent" -> "refund agent"
      [] name = "Triage Agent" -> "triage agent"
      [] OTHER -> name

UserEntry(content) == [role |-> "user", content |-> content]

\* line 124 written with the role of line 111
AssistantEntryAsUser(content) == [role |-> "user", content |-> content]

AssistantEntry(content) == [role |-> "assistant", content |-> content]

\* the texts shown in the UI, as the parts the f-strings join
ThinkingContent == <<"Thinking...">>

\* the source's marker is U+26A0 U+FE0F followed by " Error: "
ErrorMarker == "(warning) Error: "

\* line 132 written without str(e)
ErrorNoticeGeneric(e) == <<ErrorMarker, "unknown error">>

ErrorNotice(e) == <<ErrorMarker, e>>

HandoffNotice(agent_name) ==
    <<"Handing off to ", agent_name, "...", "I'm transferring your request to our ", Lower(agent_name), " who will be able to better assist you.">>

Sent(author, content) == [op |-> "send", author |-> author, content |-> content]

Updated(content) == [op |-> "update", author |-> "default", content |-> content]

(* ------------------------------ state ---------------------------------- *)
VARIABLES
    gemini_api_key,  \* the value read at line 13
    modulePc,        \* "loading", "ready" (handlers registered) or "aborted"
    constructed,     \* names of the Agent objects constructed so far
    session,         \* cl.user_session: agent, config, chat_history (a reference)
    heap,            \* the list objects: ListIds -> sequence of entries
    startPc,         \* start(): "Idle" or "Welcoming" (awaiting line 93)
    starts,          \* number of runs of start()
    discarded,       \* the history stored when the running start() began
    welcomes,        \* number of welcome messages delivered
    turns,           \* number of runs of main()
    pc,              \* main(): position of each handler instance
    text,            \* message.content
    agent,           \* local agent (line 106)
    config,          \* local config (line 107)
    history,         \* local history (line 110), a reference
    thinking,        \* thinking_msg.content
    response_content,\* result.final_output (line 117)
    error,           \* str(e) of the exception caught at line 131
    ui,              \* what this handler instance emitted to the UI, in order
    runnerCalls,     \* the arguments of each Runner.run call of this turn
    active,          \* the agent the runner is running in this turn
    pre,             \* the stored history when the turn began
    began,           \* how the turn began: the session start it followed, its
                     \* number, the turns then inside Runner.run, and the stored
                     \* list a session start replaced while it was inside Runner.run
    turnLog          \* the turns completed since the session started

vars == <<gemini_api_key, modulePc, constructed, session, heap, startPc, starts, discarded, welcomes, turns, pc, text, agent, config, history, thinking, response_content, error, ui, runnerCalls, active, pre, began, turnLog>>

moduleVars == <<gemini_api_key, modulePc>>

startVars == <<constructed, startPc, starts, discarded, welcomes>>

localVars == <<text, agent, config, thinking, response_content, error, runnerCalls, active, pre>>

NoBegin == [epoch |-> 0, turn |-> 0, inRunner |-> {}, droppedRef |-> NoneRef]

EmptySession == [agent |-> NoAgent, config |-> NoConfig, chat_history |-> NoneRef]

\* the stored history as a value; an unset key reads as None, shown as empty
StoredHistory == IF session.chat_history = NoneRef THEN <<>> ELSE heap[session.chat_history]

\* the two ends of a turn
Terminal == {"HistoryUpdated", "ErrorDisplayed"}

\* no handler is running
Quiet == startPc = "Idle" /\ \A h \in Handlers : pc[h] = "Idle"

(* ------------------------------ the heap ------------------------------- *)
Refs(sess, hist) == ({sess.chat_history} \cup {hist[h] : h \in Handlers}) \ {NoneRef}

\* reference counting: a list nothing refers to is gone
Collect(hp, sess, hist) == [i \in ListIds |-> IF i \in Refs(sess, hist) THEN hp[i] ELSE <<>>]

\* the list a `[]` expression creates
NewList == CHOOSE i \in ListIds : i \notin Refs(session, history) /\ \A j \in ListIds : j < i => j \in Refs(session, history)

\* Python truth value of what user_session.get("chat_history") returned
Falsy(ref) == ref = NoneRef \/ heap[ref] = <<>>

\* line 110 written as `history = []`
GetHistoryAlwaysNew == NewList

\* line 110: cl.user_session.get("chat_history") or []
GetHistory == IF Falsy(session.chat_history) THEN NewList ELSE session.chat_history

(* ------------------------------ start-up ------------------------------- *)
Init ==
    /\ gemini_api_key \in KeyValues
    /\ modulePc = "loading"
    /\ constructed = {}
    /\ session = EmptySession
    /\ heap = [i \in ListIds |-> <<>>]
    /\ startPc = "Idle"
    /\ starts = 0
    /\ discarded = <<>>
    /\ welcomes = 0
    /\ turns = 0
    /\ pc = [h \in Handlers |-> "Idle"]
    /\ text = [h \in Handlers |-> ""]
    /\ agent = [h \in Handlers |-> NoAgent]
    /\ config = [h \in Handlers |-> NoConfig]
    /\ history = [h \in Handlers |-> NoneRef]
    /\ thinking = [h \in Handlers |-> <<>>]
    /\ response_content = [h \in Handlers |-> None]
    /\ error = [h \in Handlers |-> None]
    /\ ui = [h \in Handlers |-> <<>>]
    /\ runnerCalls = [h \in Handlers |-> <<>>]
    /\ active = [h \in Handlers |-> None]
    /\ pre = [h \in Handlers |-> <<>>]
    /\ began = [h \in Handlers |-> NoBegin]
    /\ turnLog = <<>>

\* line 14 written as `gemini_api_key is None`
KeyIsNone(k) == k = None

\* line 14: `not gemini_api_key`
KeyMissing(k) == k = None \/ k = ""

\* lines 11-15, then the registration of the two handlers
LoadModule ==
    /\ modulePc = "loading"
    /\ modulePc' = IF KeyMissing(gemini_api_key) THEN "aborted" ELSE "ready"
    /\ UNCHANGED <<gemini_api_key, constructed, session, heap, startPc, starts, discarded, welcomes, turns, pc, history, ui, began, turnLog>>
    /\ UNCHANGED localVars

\* lines 89-91: the three user_session.set calls
StoreSession(list) == [agent |-> triage_agent, config |-> RunConfig, chat_history |-> list]

\* line 91 written to keep what is stored: set("chat_history", get(...) or [])
KeptHistory == StoredHistory

\* line 91: the `[]` stored as the chat history
FreshHistory == <<>>

\* start(), lines 21-93 up to the await of the welcome message's send
Start ==
    /\ modulePc = "ready"
    /\ startPc = "Idle"
    /\ starts < MaxStarts
    /\ constructed' = constructed \cup {billing_agent.name, refund_agent.name, triage_agent.name}
    /\ session' = StoreSession(NewList)
    /\ heap' = Collect([heap EXCEPT ![NewList] = FreshHistory], session', history)
    /\ startPc' = "Welcoming"
    /\ starts' = starts + 1
    /\ discarded' = StoredHistory
    /\ began' = [h \in Handlers |-> IF pc[h] = "AwaitingRunnerResult" /\ StoredHistory # <<>> /\ began[h].droppedRef = NoneRef THEN [began[h] EXCEPT !.droppedRef = session.chat_history] ELSE began[h]]
    /\ turnLog' = <<>>
    /\ UNCHANGED <<gemini_api_key, modulePc, welcomes, turns, pc, history, ui>>
    /\ UNCHANGED localVars

\* line 93: the welcome message is delivered and start() returns
StartWelcome ==
    /\ startPc = "Welcoming"
    /\ startPc' = "Idle"
    /\ welcomes' = welcomes + 1
    /\ discarded' = <<>>
    /\ UNCHANGED <<gemini_api_key, modulePc, constructed, session, heap, starts, turns, pc, history, ui, began, turnLog>>
    /\ UNCHANGED localVars

(* ------------------------------ main() --------------------------------- *)
\* lines 100-104: a message arrives, the placeholder is sent
MainEnter(h, t) ==
    /\ modulePc = "ready"
    /\ starts > 0
    /\ pc[h] = "Idle"
    /\ turns < MaxTurns
    /\ turns' = turns + 1
    /\ pc' = [pc EXCEPT ![h] = "Sent"]
    /\ text' = [text EXCEPT ![h] = t]
    /\ thinking' = [thinking EXCEPT ![h] = ThinkingContent]
    /\ ui' = [ui EXCEPT ![h] = <<Sent("default", ThinkingContent)>>]
    /\ pre' = [pre EXCEPT ![h] = StoredHistory]
    /\ began' = [began EXCEPT ![h] = [epoch |-> starts, turn |-> turns + 1, inRunner |-> {began[g].turn : g \in {f \in Handlers : pc[f] = "AwaitingRunnerResult"}}, droppedRef |-> NoneRef]]
    /\ UNCHANGED <<moduleVars, startVars, session, heap, agent, config, history, response_content, error, runnerCalls, active, turnLog>>

\* line 115 written to pass the new message alone: Runner.run(agent, history[-1:], ...)
RunnerCallLastOnly(a, list, c) == [agent |-> a, history |-> <<list[Len(list)]>>, config |-> c]

\* what Runner.run is called with at line 115; the list is passed by reference
RunnerCall(a, list, c) == [agent |-> a, history |-> list, config |-> c]

\* lines 106-115: read the session, append the user entry, call the runner
MainInvoke(h) ==
    /\ pc[h] = "Sent"
    /\ agent' = [agent EXCEPT ![h] = session.agent]
    /\ config' = [config EXCEPT ![h] = session.config]
    /\ history' = [history EXCEPT ![h] = GetHistory]
    /\ heap' = [heap EXCEPT ![GetHistory] = Append(heap[GetHistory], UserEntry(text[h]))]
    /\ runnerCalls' = [runnerCalls EXCEPT ![h] = Append(@, RunnerCall(session.agent, heap'[GetHistory], session.config))]
    /\ active' = [active EXCEPT ![h] = session.agent.name]
    /\ pc' = [pc EXCEPT ![h] = "AwaitingRunnerResult"]
    /\ UNCHANGED <<moduleVars, startVars, session, turns, text, thinking, response_content, error, ui, pre, began, turnLog>>

\* lines 43-56, called by the runner through the lambda of lines 81-82 when
\* the running agent delegates to one of its handoffs
OnHandoff(h, d) ==
    /\ pc[h] = "AwaitingRunnerResult"
    /\ active[h] = agent[h].name
    /\ d \in agent[h].handoffs
    /\ active' = [active EXCEPT ![h] = d.target]
    /\ ui' = [ui EXCEPT ![h] = Append(@, Sent("System", HandoffNotice(d.notify)))]
    /\ UNCHANGED <<moduleVars, startVars, session, heap, turns, pc, text, agent, config, history, thinking, response_content, error, runnerCalls, pre, began, turnLog>>

\* lines 115-121: the runner returns, the placeholder takes the output
RunnerReturns(h, out) ==
    /\ pc[h] = "AwaitingRunnerResult"
    /\ response_content' = [response_content EXCEPT ![h] = out]
    /\ thinking' = [thinking EXCEPT ![h] = <<out>>]
    /\ ui' = [ui EXCEPT ![h] = Append(@, Updated(<<out>>))]
    /\ pc' = [pc EXCEPT ![h] = "Replied"]
    /\ UNCHANGED <<moduleVars, startVars, session, heap, turns, text, agent, config, history, error, runnerCalls, active, pre, began, turnLog>>

\* the record of a finished turn
TurnRecord(h, ok, res) == [text |-> text[h], ok |-> ok, result |-> res, pre |-> pre[h], began |-> began[h]]

\* MainSave without line 127: the appended list is never stored
MainSaveNoSet(h) ==
    /\ pc[h] = "Replied"
    /\ history' = [history EXCEPT ![h] = NoneRef]
    /\ heap' = Collect([heap EXCEPT ![history[h]] = Append(@, AssistantEntry(response_content[h]))], session, history')
    /\ pc' = [pc EXCEPT ![h] = "HistoryUpdated"]
    /\ turnLog' = Append(turnLog, TurnRecord(h, TRUE, response_content[h]))
    /\ UNCHANGED <<moduleVars, startVars, session, turns, text, agent, config, thinking, response_content, error, ui, runnerCalls, active, pre, began>>

\* the agent object of a name
AgentNamed(n) == CHOOSE a \in {billing_agent, refund_agent, triage_agent} : a.name = n

\* MainSave that also stores the agent the run ended in: set("agent", result.last_agent)
MainSaveStoresLastAgent(h) ==
    /\ pc[h] = "Replied"
    /\ session' = [session EXCEPT !.chat_history = history[h], !.agent = AgentNamed(active[h])]
    /\ history' = [history EXCEPT ![h] = NoneRef]
    /\ heap' = Collect([heap EXCEPT ![history[h]] = Append(@, AssistantEntry(response_content[h]))], session', history')
    /\ pc' = [pc EXCEPT ![h] = "HistoryUpdated"]
    /\ turnLog' = Append(turnLog, TurnRecord(h, TRUE, response_content[h]))
    /\ UNCHANGED <<moduleVars, startVars, turns, text, agent, config, thinking, response_content, error, ui, runnerCalls, active, pre, began>>

\* lines 124-127: append the assistant entry and store the list
MainSave(h) ==
    /\ pc[h] = "Replied"
    /\ session' = [session EXCEPT !.chat_history = history[h]]
    /\ history' = [history EXCEPT ![h] = NoneRef]
    /\ heap' = Collect([heap EXCEPT ![history[h]] = Append(@, AssistantEntry(response_content[h]))], session', history')
    /\ pc' = [pc EXCEPT ![h] = "HistoryUpdated"]
    /\ turnLog' = Append(turnLog, TurnRecord(h, TRUE, response_content[h]))
    /\ UNCHANGED <<moduleVars, startVars, turns, text, agent, config, thinking, response_content, error, ui, runnerCalls, active, pre, began>>

\* RunnerRaises with one retry of the runner call before giving up
RunnerRaisesRetry(h, e) ==
    /\ pc[h] = "AwaitingRunnerResult"
    /\ IF Len(runnerCalls[h]) < 2
       THEN /\ runnerCalls' = [runnerCalls EXCEPT ![h] = Append(@, RunnerCall(agent[h], heap[history[h]], config[h]))]
            /\ UNCHANGED <<error, thinking, ui, history, heap, pc, turnLog>>
       ELSE /\ error' = [error EXCEPT ![h] = e]
            /\ thinking' = [thinking EXCEPT ![h] = ErrorNotice(e)]
            /\ ui' = [ui EXCEPT ![h] = Append(@, Updated(ErrorNotice(e)))]
            /\ history' = [history EXCEPT ![h] = NoneRef]
            /\ heap' = Collect(heap, session, history')
            /\ pc' = [pc EXCEPT ![h] = "ErrorDisplayed"]
            /\ turnLog' = Append(turnLog, TurnRecord(h, FALSE, e))
            /\ UNCHANGED runnerCalls
    /\ UNCHANGED <<moduleVars, startVars, session, turns, text, agent, config, response_content, active, pre, began>>

\* line 115 raises; lines 131-134: the placeholder takes the error notice
RunnerRaises(h, e) ==
    /\ pc[h] = "AwaitingRunnerResult"
    /\ error' = [error EXCEPT ![h] = e]
    /\ thinking' = [thinking EXCEPT ![h] = ErrorNotice(e)]
    /\ ui' = [ui EXCEPT ![h] = Append(@, Updated(ErrorNotice(e)))]
    /\ history' = [history EXCEPT ![h] = NoneRef]
    /\ heap' = Collect(heap, session, history')
    /\ pc' = [pc EXCEPT ![h] = "ErrorDisplayed"]
    /\ turnLog' = Append(turnLog, TurnRecord(h, FALSE, e))
    /\ UNCHANGED <<moduleVars, startVars, session, turns, text, agent, config, response_content, runnerCalls, active, pre, began>>

\* lines 129 and 134: the print, then main() returns and its locals are gone
MainReturn(h) ==
    /\ pc[h] \in Terminal
    /\ pc' = [pc EXCEPT ![h] = "Idle"]
    /\ text' = [text EXCEPT ![h] = ""]
    /\ agent' = [agent EXCEPT ![h] = NoAgent]
    /\ config' = [config EXCEPT ![h] = NoConfig]
    /\ thinking' = [thinking EXCEPT ![h] = <<>>]
    /\ response_content' = [response_content EXCEPT ![h] = None]
    /\ error' = [error EXCEPT ![h] = None]
    /\ ui' = [ui EXCEPT ![h] = <<>>]
    /\ runnerCalls' = [runnerCalls EXCEPT ![h] = <<>>]
    /\ active' = [active EXCEPT ![h] = None]
    /\ pre' = [pre EXCEPT ![h] = <<>>]
    /\ began' = [began EXCEPT ![h] = NoBegin]
    /\ UNCHANGED <<moduleVars, startVars, session, heap, turns, history, turnLog>>

(* ------------------------ failing UI calls ----------------------------- *)
\* Message.send() and Message.update() are awaited calls into the UI
\* framework and may raise. Line 104 is outside the try: an error there
\* leaves main() at once. Line 121 is inside it: an error there is caught at
\* line 131. Line 133 is inside the except branch: an error there leaves
\* main().

\* lines 100-104, the send raising
SendFails(h, t, e) ==
    /\ modulePc = "ready"
    /\ starts > 0
    /\ pc[h] = "Idle"
    /\ turns < MaxTurns
    /\ turns' = turns + 1
    /\ pc' = [pc EXCEPT ![h] = "Crashed"]
    /\ text' = [text EXCEPT ![h] = t]
    /\ thinking' = [thinking EXCEPT ![h] = ThinkingContent]
    /\ error' = [error EXCEPT ![h] = e]
    /\ pre' = [pre EXCEPT ![h] = StoredHistory]
    /\ began' = [began EXCEPT ![h] = [epoch |-> starts, turn |-> turns + 1, inRunner |-> {began[g].turn : g \in {f \in Handlers : pc[f] = "AwaitingRunnerResult"}}, droppedRef |-> NoneRef]]
    /\ turnLog' = Append(turnLog, [text |-> t, ok |-> FALSE, result |-> e, pre |-> pre'[h], began |-> began'[h]])
    /\ UNCHANGED <<moduleVars, startVars, session, heap, agent, config, history, response_content, ui, runnerCalls, active>>

\* ReplyUpdateFails with line 124 moved before lines 120-121
ReplyUpdateFailsAfterAppend(h, out, e) ==
    /\ pc[h] = "AwaitingRunnerResult"
    /\ response_content' = [response_content EXCEPT ![h] = out]
    /\ error' = [error EXCEPT ![h] = e]
    /\ thinking' = [thinking EXCEPT ![h] = ErrorNotice(e)]
    /\ ui' = [ui EXCEPT ![h] = Append(@, Updated(ErrorNotice(e)))]
    /\ history' = [history EXCEPT ![h] = NoneRef]
    /\ heap' = Collect([heap EXCEPT ![history[h]] = Append(@, AssistantEntry(out))], session, history')
    /\ pc' = [pc EXCEPT ![h] = "ErrorDisplayed"]
    /\ turnLog' = Append(turnLog, TurnRecord(h, FALSE, e))
    /\ UNCHANGED <<moduleVars, startVars, session, turns, text, agent, config, runnerCalls, active, pre, began>>

\* lines 115-121 with the update of line 121 raising, then lines 131-133:
\* the placeholder takes the error notice
ReplyUpdateFails(h, out, e) ==
    /\ pc[h] = "AwaitingRunnerResult"
    /\ response_content' = [response_content EXCEPT ![h] = out]
    /\ error' = [error EXCEPT ![h] = e]
    /\ thinking' = [thinking EXCEPT ![h] = ErrorNotice(e)]
    /\ ui' = [ui EXCEPT ![h] = Append(@, Updated(ErrorNotice(e)))]
    /\ history' = [history EXCEPT ![h] = NoneRef]
    /\ heap' = Collect(heap, session, history')
    /\ pc' = [pc EXCEPT ![h] = "ErrorDisplayed"]
    /\ turnLog' = Append(turnLog, TurnRecord(h, FALSE, e))
    /\ UNCHANGED <<moduleVars, startVars, session, turns, text, agent, config, runnerCalls, active, pre, began>>

\* lines 115-121 with the update of line 121 raising, then lines 131-133
\* with the update of line 133 raising too
ReplyUpdateFailsTwice(h, out, e) ==
    /\ pc[h] = "AwaitingRunnerResult"
    /\ response_content' = [response_content EXCEPT ![h] = out]
    /\ error' = [error EXCEPT ![h] = e]
    /\ thinking' = [thinking EXCEPT ![h] = ErrorNotice(e)]
    /\ history' = [history EXCEPT ![h] = NoneRef]
    /\ heap' = Collect(heap, session, history')
    /\ pc' = [pc EXCEPT ![h] = "Crashed"]
    /\ turnLog' = Append(turnLog, TurnRecord(h, FALSE, e))
    /\ UNCHANGED <<moduleVars, startVars, session, turns, text, agent, config, ui, runnerCalls, active, pre, began>>

\* line 115 raises, then lines 131-133 with the update of line 133 raising
ErrorUpdateFails(h, e) ==
    /\ pc[h] = "AwaitingRunnerResult"
    /\ error' = [error EXCEPT ![h] = e]
    /\ thinking' = [thinking EXCEPT ![h] = ErrorNotice(e)]
    /\ history' = [history EXCEPT ![h] = NoneRef]
    /\ heap' = Collect(heap, session, history')
    /\ pc' = [pc EXCEPT ![h] = "Crashed"]
    /\ turnLog' = Append(turnLog, TurnRecord(h, FALSE, e))
    /\ UNCHANGED <<moduleVars, startVars, session, turns, text, agent, config, response_content, ui, runnerCalls, active, pre, began>>

\* the exception leaves main(): its locals are gone
MainUnwind(h) ==
    /\ pc[h] = "Crashed"
    /\ pc' = [pc EXCEPT ![h] = "Idle"]
    /\ text' = [text EXCEPT ![h] = ""]
    /\ agent' = [agent EXCEPT ![h] = NoAgent]
    /\ config' = [config EXCEPT ![h] = NoConfig]
    /\ thinking' = [thinking EXCEPT ![h] = <<>>]
    /\ response_content' = [response_content EXCEPT ![h] = None]
    /\ error' = [error EXCEPT ![h] = None]
    /\ ui' = [ui EXCEPT ![h] = <<>>]
    /\ runnerCalls' = [runnerCalls EXCEPT ![h] = <<>>]
    /\ active' = [active EXCEPT ![h] = None]
    /\ pre' = [pre EXCEPT ![h] = <<>>]
    /\ began' = [began EXCEPT ![h] = NoBegin]
    /\ UNCHANGED <<moduleVars, startVars, session, heap, turns, history, turnLog>>

(* ------------------------------ behaviours ----------------------------- *)
\* The UI framework runs one handler at a time per session: start() and
\* main() begin only when no handler of the session is running.
Next ==
    \/ LoadModule
    \/ (Quiet /\ Start)
    \/ StartWelcome
    \/ \E h \in Handlers, t \in Texts : Quiet /\ MainEnter(h, t)
    \/ \E h \in Handlers : MainInvoke(h)
    \/ \E h \in Handlers : \E d \in agent[h].handoffs : OnHandoff(h, d)
    \/ \E h \in Handlers, out \in Outputs : RunnerReturns(h, out)
    \/ \E h \in Handlers : MainSave(h)
    \/ \E h \in Handlers, e \in Errors : RunnerRaises(h, e)
    \/ \E h \in Handlers : MainReturn(h)

Spec == Init /\ [][Next]_vars

\* no handler is between its last await and its return (lines 124-129, 134)
NoneReturning == \A h \in Handlers : pc[h] \notin Terminal

\* The code itself has no mutual exclusion: every await of start() and main()
\* is a point where another handler of the session may run; between its last
\* await and its return a handler runs alone.
NextOverlap ==
    \/ LoadModule
    \/ (NoneReturning /\ Start)
    \/ (NoneReturning /\ StartWelcome)
    \/ \E h \in Handlers, t \in Texts : turns < MaxOverlapTurns /\ NoneReturning /\ MainEnter(h, t)
    \/ \E h \in Handlers : NoneReturning /\ MainInvoke(h)
    \/ \E h \in Handlers : \E d \in agent[h].handoffs : NoneReturning /\ OnHandoff(h, d)
    \/ \E h \in Handlers, out \in Outputs : NoneReturning /\ RunnerReturns(h, out)
    \/ \E h \in Handlers : NoneReturning /\ MainSave(h)
    \/ \E h \in Handlers, e \in Errors : NoneReturning /\ RunnerRaises(h, e)
    \/ \E h \in Handlers : MainReturn(h)

SpecOverlap == Init /\ [][NextOverlap]_vars

\* One handler at a time, and the UI calls of main() may raise.
NextUiFail ==
    \/ Next
    \/ \E h \in Handlers, t \in Texts, e \in Errors : Quiet /\ SendFails(h, t, e)
    \/ \E h \in Handlers, out \in Outputs, e \in Errors : ReplyUpdateFails(h, out, e)
    \/ \E h \in Handlers, out \in Outputs, e \in Errors : ReplyUpdateFailsTwice(h, out, e)
    \/ \E h \in Handlers, e \in Errors : ErrorUpdateFails(h, e)
    \/ \E h \in Handlers : MainUnwind(h)

SpecUiFail == Init /\ [][NextUiFail]_vars

(* ------------------------------ claims --------------------------------- *)
user(c) == [role |-> "user", content |-> c]

assistant(c) == [role |-> "assistant", content |-> c]

\* C1: when the runner returned an output, the stored history after the turn
\* is the stored history before the turn, then the user entry with the
\* message text, then the assistant entry with the runner's output.
C1_SuccessAppendsUserThenAssistant ==
    \A h \in Handlers : pc[h] = "HistoryUpdated" =>
        StoredHistory = pre[h] \o <<user(text[h]), assistant(response_content[h])>>

\* a successful turn has ended on a history that was not empty
C1_Witness == \E h \in Handlers : pc[h] = "HistoryUpdated" /\ Len(pre[h]) >= 2 /\ Len(StoredHistory) = Len(pre[h]) + 2

\* C2: when the runner raised, the stored history after the turn is the
\* stored history before the turn followed by the turn's user entry alone,
\* whatever the history before was, the empty one included.
C2_FailureAppendsUserOnly ==
    \A h \in Handlers : pc[h] = "ErrorDisplayed" =>
        StoredHistory = Append(pre[h], user(text[h]))

\* the turn before the one that just ended, when there is one
PreviousTurn == turnLog[Len(turnLog) - 1]

\* C3: a successful turn that follows a failed one is given the history
\* before the failed turn, the failed turn's user entry and its own user
\* entry, and ends with that history plus its assistant entry stored.
C3_SuccessAfterFailure ==
    \A h \in Handlers : (pc[h] = "HistoryUpdated" /\ Len(turnLog) >= 2 /\ ~PreviousTurn.ok) =>
        /\ Len(runnerCalls[h]) = 1
        /\ runnerCalls[h][1].history = PreviousTurn.pre \o <<user(PreviousTurn.text), user(text[h])>>
        /\ StoredHistory = PreviousTurn.pre \o <<user(PreviousTurn.text), user(text[h]), assistant(response_content[h])>>

\* the session state as values: the agent, the config and the history's entries
SessionValue == [agent |-> session.agent, config |-> session.config, history |-> StoredHistory]

\* C4: whenever start() has run, first or again, the session holds the triage
\* agent, the run configuration and the empty history, whatever it held
\* before: so two runs in a row leave what one run leaves.
C4_StartResets ==
    startPc = "Welcoming" =>
        SessionValue = [agent |-> triage_agent, config |-> RunConfig, history |-> <<>>]

\* start() has run again over a stored history that was not empty
C4_Witness == startPc = "Welcoming" /\ starts = 2 /\ Len(discarded) >= 2 /\ StoredHistory = <<>>

AllAgents == {"Billing Agent", "Refund Agent", "Triage Agent"}

\* C5: with the key unset or empty the start-up aborts: no agent is ever
\* constructed, no session state written, no welcome sent. With the key set,
\* each start() has constructed the agents and written the session state
\* before its welcome message, and sends exactly one welcome message.
C5_StartupKeyCheck ==
    /\ gemini_api_key \in {None, ""} =>
        /\ modulePc \in {"loading", "aborted"}
        /\ constructed = {}
        /\ session = EmptySession
        /\ starts = 0
        /\ welcomes = 0
    /\ (gemini_api_key = "key" /\ modulePc # "loading") => modulePc = "ready"
    /\ startPc = "Welcoming" =>
        /\ constructed = AllAgents
        /\ session.agent = triage_agent
        /\ session.chat_history # NoneRef
        /\ welcomes = starts - 1
    /\ startPc = "Idle" => welcomes = starts

\* the start-up has aborted on an empty key
C5_Witness == modulePc = "aborted" /\ gemini_api_key = "" /\ welcomes = 0

\* the notices of the handoff notifier among what a handler emitted
NoticeAt(h) == {i \in 1..Len(ui[h]) : ui[h][i].op = "send" /\ ui[h][i].author = "System"}

UpdateAt(h) == {i \in 1..Len(ui[h]) : ui[h][i].op = "update"}

Delegates == {"Billing Agent", "Refund Agent"}

\* C6: when the runner delegated to a delegate, the notice names exactly
\* that delegate, and it was emitted after the user entry was appended and
\* the runner invoked, and before the placeholder is replaced.
C6_HandoffNotice ==
    \A h \in Handlers :
        /\ (active[h] \in Delegates) = (NoticeAt(h) # {})
        /\ \A i \in NoticeAt(h) :
            /\ ui[h][i].content[1] = "Handing off to "
            /\ ui[h][i].content[2] = active[h]
            /\ ui[h][i].content[3] = "..."
            /\ i > 1
            /\ Len(runnerCalls[h]) = 1
            /\ runnerCalls[h][1].history[Len(runnerCalls[h][1].history)] = user(text[h])
            /\ \A j \in UpdateAt(h) : i < j

\* a turn that delegated to the refund agent has ended with its reply shown
C6_Witness == \E h \in Handlers : pc[h] = "HistoryUpdated" /\ active[h] = "Refund Agent" /\ NoticeAt(h) = {2} /\ UpdateAt(h) = {3}

IsPrefix(a, b) == Len(a) <= Len(b) /\ SubSeq(b, 1, Len(a)) = a

\* C7: within a session the stored history only grows at its end: every step
\* that is not a session start leaves the stored history a prefix of the
\* stored history after it, so every earlier history is a prefix of every
\* later one.
C7_AppendOnly == [][starts' = starts => IsPrefix(StoredHistory, StoredHistory')]_vars

\* a failed turn has ended on a history that held earlier turns
C7_Witness == \E h \in Handlers : pc[h] = "ErrorDisplayed" /\ Len(pre[h]) >= 2 /\ Len(StoredHistory) = Len(pre[h]) + 1

InFlight == {"Sent", "AwaitingRunnerResult", "Replied"}

\* C8: after a session start and n successful turns, with no failed turn and
\* no turn under way, the stored history has 2n entries, the k-th pair being
\* the user entry of the k-th message and the assistant entry of the k-th
\* output.
C8_Alternation ==
    ((\A h \in Handlers : pc[h] \notin InFlight) /\ (\A k \in 1..Len(turnLog) : turnLog[k].ok)) =>
        /\ Len(StoredHistory) = 2 * Len(turnLog)
        /\ \A k \in 1..Len(turnLog) :
            /\ StoredHistory[2 * k - 1] = user(turnLog[k].text)
            /\ StoredHistory[2 * k] = assistant(turnLog[k].result)

\* two successful turns have run since the session start
C8_Witness == Quiet /\ starts > 0 /\ Len(turnLog) = 2 /\ turnLog[1].ok /\ turnLog[2].ok /\ Len(StoredHistory) = 4

TurnSteps ==
    {<<"Idle", "Sent">>, <<"Sent", "AwaitingRunnerResult">>, <<"AwaitingRunnerResult", "Replied">>,
     <<"Replied", "HistoryUpdated">>, <<"AwaitingRunnerResult", "ErrorDisplayed">>,
     <<"HistoryUpdated", "Idle">>, <<"ErrorDisplayed", "Idle">>}

C9_TurnState ==
    \A h \in Handlers :
        /\ pc[h] \in {"Idle", "Sent"} => runnerCalls[h] = <<>>
        /\ pc[h] \in {"AwaitingRunnerResult", "Replied", "HistoryUpdated", "ErrorDisplayed"} => Len(runnerCalls[h]) = 1
        /\ pc[h] = "Replied" => ENABLED MainSave(h)
        /\ pc[h] = "HistoryUpdated" => (response_content[h] # None /\ error[h] = None)
        /\ pc[h] = "ErrorDisplayed" => (error[h] # None /\ response_content[h] = None)

C10_Placeholder ==
    \A h \in Handlers :
        /\ pc[h] # "Idle" => (Len(ui[h]) >= 1 /\ ui[h][1] = [op |-> "send", author |-> "default", content |-> <<"Thinking...">>])
        /\ pc[h] = "Sent" => (StoredHistory = pre[h] /\ runnerCalls[h] = <<>>)
        /\ pc[h] \in {"Sent", "AwaitingRunnerResult"} => UpdateAt(h) = {}
        /\ pc[h] \in {"Replied", "HistoryUpdated"} =>
            (Cardinality(UpdateAt(h)) = 1 /\ \A j \in UpdateAt(h) : ui[h][j].content = <<response_content[h]>>)
        /\ pc[h] = "ErrorDisplayed" =>
            (Cardinality(UpdateAt(h)) = 1 /\ \A j \in UpdateAt(h) : ui[h][j].content = <<ErrorMarker, error[h]>>)

\* a failed turn has shown its error notice in the placeholder
C10_Witness == \E h \in Handlers : pc[h] = "ErrorDisplayed" /\ UpdateAt(h) = {Len(ui[h])} /\ ui[h][Len(ui[h])].content[2] = "e1"

Called == {"AwaitingRunnerResult", "Replied", "HistoryUpdated", "ErrorDisplayed"}

\* C11: the runner is called with the agent and the config the session holds
\* and with the full history: the entries stored by the earlier turns, in
\* order, then the user entry of this turn as the last element.
C11_RunnerArguments ==
    \A h \in Handlers : pc[h] \in Called =>
        /\ Len(runnerCalls[h]) = 1
        /\ runnerCalls[h][1].agent = session.agent
        /\ runnerCalls[h][1].config = session.config
        /\ runnerCalls[h][1].history = pre[h] \o <<user(text[h])>>

\* the runner has been called on a history that held an earlier turn
C11_Witness == \E h \in Handlers : pc[h] = "AwaitingRunnerResult" /\ Len(pre[h]) >= 2 /\ Len(runnerCalls[h][1].history) = Len(pre[h]) + 1

\* C12: once the session has started, whatever turns have run, handoffs to
\* the billing or refund agent included, the session holds the triage agent
\* and the config written at session start, and every runner call of a turn
\* is given the triage agent.
C12_AgentAndConfigKept ==
    /\ starts > 0 => (session.agent = triage_agent /\ session.config = RunConfig)
    /\ \A h \in Handlers : \A i \in 1..Len(runnerCalls[h]) : runnerCalls[h][i].agent.name = "Triage Agent"

\* a later turn of the session handed off to the billing agent and has ended,
\* the session still holding the triage agent
C12_Witness == \E h \in Handlers : pc[h] = "HistoryUpdated" /\ active[h] = "Billing Agent" /\ Len(pre[h]) >= 2 /\ session.agent = triage_agent

Count(e, seq) == Cardinality({i \in 1..Len(seq) : seq[i] = e})

\* the turn of record r and the turn that handler h has just ended were both
\* inside Runner.run at one time, in this session, and no other turn has
\* begun since the first of the two
OverlappedInRunner(r, h) ==
    /\ r.began.epoch = starts
    /\ began[h].epoch = starts
    /\ (r.began.turn \in began[h].inRunner \/ began[h].turn \in r.began.inRunner)
    /\ {r.began.turn, began[h].turn} = {turns - 1, turns}

\* the stored history when the first of the two turns began
HistoryBefore(r, h) == IF r.began.turn < began[h].turn THEN r.pre ELSE pre[h]

\* C13: when two handlers of a session overlapped inside the runner call and
\* both runner calls succeeded, then once both have finished the stored
\* history is the history from before them followed by four new entries:
\* both user entries and both assistant entries.
C13_OverlapKeepsAllEntries ==
    \A h \in Handlers : \A k \in 1..(Len(turnLog) - 1) :
        (pc[h] = "HistoryUpdated" /\ turnLog[k].ok /\ OverlappedInRunner(turnLog[k], h)) =>
            LET r == turnLog[k]
                base == HistoryBefore(r, h)
                new == SubSeq(StoredHistory, Len(base) + 1, Len(StoredHistory))
                expected == <<user(r.text), user(text[h]), assistant(r.result), assistant(response_content[h])>>
            IN  /\ IsPrefix(base, StoredHistory)
                /\ Len(new) = 4
                /\ \A i \in 1..4 : Count(expected[i], new) = Count(expected[i], expected)

\* C14: when a session start ran while a handler was inside the runner call,
\* the list that handler stores when it completes is not the list the
\* session start replaced, so no entry stored before the session start is
\* in the stored history afterwards.
C14_StartDiscardsInFlight ==
    [][\A h \in Handlers :
        (pc[h] = "Replied" /\ pc'[h] = "HistoryUpdated" /\ began[h].droppedRef # NoneRef) =>
            session'.chat_history # began[h].droppedRef]_vars

AssistantAt(seq) == {i \in 1..Len(seq) : seq[i].role = "assistant"}

\* C15: the history holds no reply the user was not shown. A turn that ended
\* in HistoryUpdated replaced the placeholder with the content it appended
\* as the assistant entry; a turn that ended otherwise, the one whose
\* placeholder update failed after the runner returned included, appended no
\* assistant entry; so the stored history has one assistant entry per turn
\* that showed its reply.
C15_RepliesInHistoryWereShown ==
    /\ \A h \in Handlers :
        /\ pc[h] = "HistoryUpdated" =>
            /\ \E j \in UpdateAt(h) : ui[h][j].content = <<response_content[h]>>
            /\ StoredHistory[Len(StoredHistory)] = assistant(response_content[h])
        /\ pc[h] \in {"ErrorDisplayed", "Crashed"} =>
            StoredHistory \in {pre[h], Append(pre[h], user(text[h]))}
    /\ (\A h \in Handlers : pc[h] \notin InFlight) =>
        Cardinality(AssistantAt(StoredHistory)) = Cardinality({k \in 1..Len(turnLog) : turnLog[k].ok})

\* the runner returned, the placeholder update failed, and the turn ended on
\* the failure path over a history that held an earlier turn
C15_Witness ==
    \E h \in Handlers :
        /\ pc[h] = "ErrorDisplayed"
        /\ response_content[h] = "o1"
        /\ Len(pre[h]) >= 2
        /\ StoredHistory = Append(pre[h], user(text[h]))

====
